---- MODULE Spec2Model ----
(***************************************************************************)
(* Model of the function-calling orchestrator of @synet/ai (AIOperator):   *)
(* call() / chatWithTools(), executeToolCalls(), the schema-to-tool        *)
(* conversion and the argument decoding, with the provider and the learned *)
(* capabilities as the environment.  Spec takes the provider's AIResponse  *)
(* as given; AdapterSpec passes the vendor's reply through the tools() of  *)
(* the backend the operator was created with.                              *)
(*                                                                         *)
(* Representation.  A JavaScript string is a sequence of pieces (TLA+      *)
(* strings); a capability or tool name is a sequence of one-character      *)
(* pieces, so that String.replace, trim and template literals are computed *)
(* rather than assumed.  A JSON text is a sequence of tokens.  A JSON      *)
(* value is a record [t, s, pairs]: t is the type tag, s the scalar's      *)
(* spelling, pairs the set of <<key, scalar>> entries of an object.        *)
(***************************************************************************)
EXTENDS Integers, Sequences, FiniteSets, TLC

\* ---------------------------------------------------------------------------
\* Bounds of the model
\* ---------------------------------------------------------------------------
\* most tool calls a provider response of round 1 carries
MaxCalls == 2

\* ---------------------------------------------------------------------------
\* JavaScript values and JSON
\* ---------------------------------------------------------------------------
Scalar(t, s) == [t |-> t, s |-> s, pairs |-> {}]
Obj(pairs) == [t |-> "obj", s |-> "", pairs |-> pairs]
Null == Scalar("null", "null")
Undefined == Scalar("undef", "undefined")

ArgKeys == <<"a", "b">>
ArgScalars == {Scalar("num", "5"), Scalar("str", "x"), Null}

KeySet == {ArgKeys[i] : i \in 1..Len(ArgKeys)}

IsMapping(pairs) ==
    \A p \in pairs : \A q \in pairs : p[1] = q[1] => p = q

\* every argument object over ArgKeys and ArgScalars
Mappings ==
    {Obj(ps) : ps \in {qs \in SUBSET (KeySet \X ArgScalars) : IsMapping(qs)}}

\* JSON.stringify of a scalar: a string is quoted, a number and null are bare
StringifyScalar(v) ==
    IF v.t = "str" THEN "\"" \o v.s \o "\"" ELSE v.s

\* the members of an object, its keys taken in the order of keys
RECURSIVE StringifyEntries(_, _, _, _)
StringifyEntries(pairs, keys, i, first) ==
    IF i > Len(keys) THEN <<>>
    ELSE LET k == keys[i]
             hit == {p \in pairs : p[1] = k}
         IN IF hit = {} THEN StringifyEntries(pairs, keys, i + 1, first)
            ELSE LET p == CHOOSE q \in hit : TRUE
                 IN (IF first THEN <<>> ELSE <<",">>)
                    \o <<"\"" \o k \o "\"", ":", StringifyScalar(p[2])>>
                    \o StringifyEntries(pairs, keys, i + 1, FALSE)

\* the JSON text of v as a token sequence, object keys in the order of keys
JSONText(v, keys) ==
    IF v.t = "obj" THEN <<"{">> \o StringifyEntries(v.pairs, keys, 1, TRUE) \o <<"}">>
    ELSE <<StringifyScalar(v)>>

\* JSON.stringify(v)
JSONStringify(v) == JSONText(v, ArgKeys)

\* the orders in which a sender may write the keys of an object
KeyOrders == { ArgKeys, <<"b", "a">> }

\* the JSON texts that encode v
Encodings(v) == { JSONText(v, ks) : ks \in KeyOrders }

ScalarTokens == {StringifyScalar(v) : v \in ArgScalars}
KeyTokens == {"\"" \o k \o "\"" : k \in KeySet}

ParseScalar(tok) == CHOOSE v \in ArgScalars : StringifyScalar(v) = tok
ParseKey(tok) == CHOOSE k \in KeySet : "\"" \o k \o "\"" = tok

Bad == [ok |-> FALSE, value |-> Undefined]
Good(v) == [ok |-> TRUE, value |-> v]

\* a later duplicate key replaces the earlier entry
PutPair(pairs, k, v) == {p \in pairs : p[1] # k} \cup {<<k, v>>}

\* members of an object after the opening brace: toks[i] starts a member
RECURSIVE ParseMembers(_, _, _)
ParseMembers(toks, i, acc) ==
    IF i + 2 > Len(toks) THEN Bad
    ELSE IF toks[i] \notin KeyTokens \/ toks[i + 1] # ":"
            \/ toks[i + 2] \notin ScalarTokens THEN Bad
    ELSE LET acc2 == PutPair(acc, ParseKey(toks[i]), ParseScalar(toks[i + 2]))
         IN IF i + 3 > Len(toks) THEN Bad
            ELSE IF toks[i + 3] = "}"
                 THEN IF i + 3 = Len(toks) THEN Good(Obj(acc2)) ELSE Bad
            ELSE IF toks[i + 3] = "," THEN ParseMembers(toks, i + 4, acc2)
            ELSE Bad

\* JSON.parse(text): the value, or a SyntaxError (ok = FALSE)
JSONParse(toks) ==
    IF Len(toks) = 0 THEN Bad
    ELSE IF toks[1] = "{"
         THEN IF Len(toks) = 2 /\ toks[2] = "}" THEN Good(Obj({}))
              ELSE ParseMembers(toks, 2, {})
    ELSE IF Len(toks) = 1 /\ toks[1] \in ScalarTokens
         THEN Good(ParseScalar(toks[1]))
    ELSE Bad

\* ---------------------------------------------------------------------------
\* Strings
\* ---------------------------------------------------------------------------
RECURSIVE IndexOf(_, _, _)
IndexOf(s, c, i) ==
    IF i > Len(s) THEN 0
    ELSE IF s[i] = c THEN i
    ELSE IndexOf(s, c, i + 1)

\* String.prototype.replace(from, to) with a string pattern: first match only
ReplaceFirst(s, from, to) ==
    LET i == IndexOf(s, from, 1)
    IN IF i = 0 THEN s ELSE [j \in 1..Len(s) |-> IF j = i THEN to ELSE s[j]]

\* String.prototype.includes
Includes(s, c) == IndexOf(s, c, 1) # 0

IsSpace(c) == c \in {" ", "\n"}

RECURSIVE TrimStart(_)
TrimStart(s) ==
    IF Len(s) = 0 THEN s
    ELSE IF IsSpace(s[1]) THEN TrimStart(Tail(s))
    ELSE s

RECURSIVE TrimEnd(_)
TrimEnd(s) ==
    IF Len(s) = 0 THEN s
    ELSE IF IsSpace(s[Len(s)]) THEN TrimEnd(SubSeq(s, 1, Len(s) - 1))
    ELSE s

\* String.prototype.trim
Trim(s) == TrimEnd(TrimStart(s))

\* truthiness of a string: the empty string is falsy
Truthy(s) == Len(s) > 0

\* Array.prototype.join of the strings in lines
RECURSIVE Join(_, _)
Join(lines, sep) ==
    IF Len(lines) = 0 THEN <<>>
    ELSE IF Len(lines) = 1 THEN lines[1]
    ELSE lines[1] \o <<sep>> \o Join(Tail(lines), sep)

\* an optional string (undefined when has = FALSE)
None == [has |-> FALSE, text |-> <<>>]
Some(t) == [has |-> TRUE, text |-> t]

\* ---------------------------------------------------------------------------
\* Names, teaching contracts, tool calls: the inputs of the model
\* ---------------------------------------------------------------------------
\* the parameters of a tool descriptor: a JSON schema of type object with its
\* properties (name and type of each) and, optionally, the required names
ObjectSchema(properties, required) ==
    [type |-> "object", properties |-> properties, required |-> required]

AddParameters ==
    ObjectSchema({<<"a", "number">>, <<"b", "number">>}, Some(<<"a", "b">>))
HalveParameters == ObjectSchema({<<"a", "number">>}, None)

\* the teaching contracts a caller presents to learn(): per capability its
\* name and the name, description and parameters its tool descriptor declares
Contracts ==
    { [unitId |-> <<"c">>,
       caps |-> << [name |-> <<"a">>, tool |-> <<"a">>, description |-> "adds", parameters |-> AddParameters],
                   [name |-> <<"b">>, tool |-> <<"b">>, description |-> "halves",
                    parameters |-> HalveParameters] >>] }

StringArgs(toks) == [kind |-> "string", text |-> toks, value |-> Undefined]
ObjectArgs(v) == [kind |-> "object", text |-> <<>>, value |-> v]

FiveArgs == Obj({<<"a", Scalar("num", "5")>>})

\* the tool calls a provider response can carry: the name of an exposed tool
\* with decoded or malformed arguments, and a name never learned (well-formed
\* JSON text is the subject of ArgSpec below)
CallChoices ==
    { [name |-> <<"c", "_", "a">>, arguments |-> ObjectArgs(FiveArgs)],
      [name |-> <<"c", "_", "a">>, arguments |-> StringArgs(<<"{", "\"a\"", ":">>)],
      [name |-> <<"n", "_", "x">>, arguments |-> ObjectArgs(FiveArgs)] }

\* provider-assigned correlation token of the i-th call of a response
CallId(i) == <<"call", i>>

ToolCall(i, c) == [id |-> CallId(i), name |-> c.name, arguments |-> c.arguments]

CallLists ==
    UNION { { [i \in 1..n |-> ToolCall(i, f[i])] : f \in [1..n -> CallChoices] } :
            n \in 0..MaxCalls }

Contents == { <<>>, <<" ">>, <<"hi">> }

Response(content, has, calls) ==
    [content |-> content, hasToolCalls |-> has, toolCalls |-> calls]

\* what the provider may answer in round 1
Responses1 ==
    { Response(c, TRUE, l) : c \in Contents, l \in CallLists }
    \cup { Response(c, FALSE, <<>>) : c \in Contents }

\* what the provider may answer in the follow-up round
Responses2 ==
    { Response(<<"done">>, FALSE, <<>>),
      Response(<<>>, TRUE, <<>>),
      Response(<<"more">>, TRUE,
               << ToolCall(0, [name |-> <<"c", "_", "a">>,
                                   arguments |-> ObjectArgs(Obj({}))]) >>) }

\* how an executed capability ends: a value, a thrown Error, a thrown non-Error
Outcomes ==
    { [kind |-> "return", value |-> Scalar("num", "8"), message |-> <<>>],
      [kind |-> "throwError", value |-> Undefined, message |-> <<"boom">>],
      [kind |-> "throwOther", value |-> Undefined, message |-> <<>>] }

CustomTool ==
    [name |-> <<"x">>, description |-> "custom",
     parameters |-> ObjectSchema({<<"q", "string">>}, Some(<<"q">>))]

\* the options of call() / chatWithTools() (CallOptions)
OptionChoices ==
    [ useTools : BOOLEAN,
      schemas : { [has |-> FALSE, list |-> <<>>],
                  [has |-> TRUE, list |-> << <<"c", ".", "b">>, <<"z", ".", "z">> >>] },
      tools : { <<>>, <<CustomTool>> },
      systemPrompt : { None, Some(<<"sys">>) } ]

Turn(role, content) == [role |-> role, content |-> content]

Prompts == { <<"p">> }

\* chatWithTools() reads neither useTools nor schemas
ChatOptionChoices ==
    {opts \in OptionChoices : ~opts.useTools /\ ~opts.schemas.has}

\* the conversations a caller hands to chatWithTools()
MessageChoices ==
    { << Turn("user", <<"p">>) >>,
      << Turn("system", <<"s">>), Turn("user", <<"p">>) >>,
      << Turn("user", <<"q">>), Turn("assistant", <<"r">>), Turn("user", <<"p">>) >> }

\* ---------------------------------------------------------------------------
\* State
\* ---------------------------------------------------------------------------
VARIABLES
    capabilities,     \* names of the learned capabilities (this.can / this.execute)
    schemas,          \* learned tool schemas, in registration order (this.schema())
    learnError,       \* what the last learn() threw, if it did
    evolved,          \* the unit the last evolve() derived from this one
    pc,               \* position of the invocation in flight
    method,           \* "call" or "chatWithTools"
    prompt,           \* call(): the prompt
    messages,         \* chatWithTools(): the caller's messages
    options,          \* the CallOptions of the invocation
    initialResponse,  \* the provider response of round 1
    idx,              \* executeToolCalls: index of the tool call handled next
    toolResults,      \* executeToolCalls: results pushed so far
    executed,         \* capabilities run so far: name, argument, outcome
    started,          \* executeToolCalls: iterations of the loop begun so far
    requests,         \* the provider requests the invocation has issued
    finalResponse,    \* the provider response of the follow-up round
    outcome,          \* what the invocation returned to its caller
    conversation,     \* the messages array built for the follow-up round
    providerType,     \* the backend the operator was created with (props.providerType)
    vendorResponse,   \* the vendor's reply of round 1 as the adapter received it
    connection,       \* the last validateConnection(): who was asked, and the answer
    thrown,           \* the error object an adapter threw to its caller, if one did
    wire,             \* the request bodies the backend has sent to the vendor
    creation          \* the last AIOperator.create(): what was asked for, and what came

vars == <<capabilities, schemas, learnError, evolved, pc, method, prompt, messages, options,
          initialResponse, idx, toolResults, executed, started, requests,
          finalResponse, outcome, conversation, providerType, vendorResponse, connection, thrown,
          wire, creation>>

registry == <<capabilities, schemas, learnError, evolved>>
backend == <<providerType, vendorResponse, connection, thrown, wire, creation>>
invocation == <<method, prompt, messages, options>>

NoResponse == Response(<<>>, FALSE, <<>>)
NoOptions ==
    [useTools |-> FALSE, schemas |-> [has |-> FALSE, list |-> <<>>],
     tools |-> <<>>, systemPrompt |-> None]
NoOutcome == [kind |-> "none", response |-> NoResponse, error |-> <<>>]
Resolved(r) == [kind |-> "resolved", response |-> r, error |-> <<>>]
Rejected(e) == [kind |-> "rejected", response |-> NoResponse, error |-> e]
ProviderError == <<"provider request failed">>

\* ---------------------------------------------------------------------------
\* Registry (Unit base class: learn, can, schema)
\* ---------------------------------------------------------------------------
CapabilityKey(unitId, cap) == unitId \o <<".">> \o cap.name

\* the descriptor is registered under the unit's id and its declared name
SchemaOf(unitId, cap) ==
    [name |-> unitId \o <<".">> \o cap.tool, description |-> cap.description,
     parameters |-> cap.parameters]

\* Map.set: an existing name keeps its place, a new name goes last
PutSchema(list, sch) ==
    IF \E i \in 1..Len(list) : list[i].name = sch.name
    THEN [i \in 1..Len(list) |-> IF list[i].name = sch.name THEN sch ELSE list[i]]
    ELSE Append(list, sch)

RECURSIVE LearnSchemas(_, _, _)
LearnSchemas(list, contract, i) ==
    IF i > Len(contract.caps) THEN list
    ELSE LearnSchemas(PutSchema(list, SchemaOf(contract.unitId, contract.caps[i])),
                      contract, i + 1)

can(name) == name \in capabilities

SchemaGet(name) == {sch \in {schemas[i] : i \in 1..Len(schemas)} : sch.name = name}

\* variant: the declared names are not compared
NamesAgree_Unchecked(contract) == TRUE

\* every descriptor of the contract declares the name of its capability
NamesAgree(contract) ==
    \A i \in 1..Len(contract.caps) : contract.caps[i].tool = contract.caps[i].name

\* the error learn() throws for the first descriptor that disagrees
SchemaMismatch(contract) ==
    LET i == CHOOSE j \in 1..Len(contract.caps) :
                 /\ contract.caps[j].tool # contract.caps[j].name
                 /\ \A h \in 1..(j - 1) : contract.caps[h].tool = contract.caps[h].name
    IN <<"Tool schema name '">> \o contract.caps[i].tool
       \o <<"' must match capability '">> \o contract.caps[i].name \o <<"'">>

\* learn([contract]), called between invocations: the contract is validated
\* as a whole before anything of it is registered
Learn(contract) ==
    /\ pc = "idle"
    /\ IF NamesAgree(contract)
       THEN /\ capabilities' = capabilities \cup
                  {CapabilityKey(contract.unitId, contract.caps[i]) :
                      i \in 1..Len(contract.caps)}
            /\ schemas' = LearnSchemas(schemas, contract, 1)
            /\ learnError' = None
       ELSE /\ learnError' = Some(SchemaMismatch(contract))
            /\ UNCHANGED <<capabilities, schemas>>
    /\ UNCHANGED <<evolved, pc, invocation, initialResponse, idx, toolResults,
                   executed, started, requests, finalResponse, outcome, backend, conversation>>

\* the id of the operator's own unit (dna.id)
OperatorId == "ai"

DerivedUnit(id, parent, added, caps, list) ==
    [made |-> TRUE, id |-> id, parent |-> parent, added |-> added,
     capabilities |-> caps, schemas |-> list]

NotEvolved == [made |-> FALSE, id |-> "none", parent |-> "none", added |-> {},
               capabilities |-> {}, schemas |-> <<>>]

\* variant: the derived unit starts with the added capabilities only
EvolvedCapabilities_OnlyAdded(learned, added) == added

\* the capabilities of the derived unit: the learned ones and the added ones
EvolvedCapabilities(learned, added) == learned \cup added

\* evolve(id, added), called between invocations: a new unit with this unit
\* as its parent, this unit's capabilities and descriptors and the added
\* capabilities; this unit stays as it is
Evolve(id, added) ==
    /\ pc = "idle"
    /\ evolved' = DerivedUnit(id, OperatorId, added,
                              EvolvedCapabilities(capabilities, added), schemas)
    /\ UNCHANGED <<capabilities, schemas, learnError, pc, invocation, initialResponse,
                   idx, toolResults, executed, started, requests, finalResponse, outcome,
                   backend, conversation>>

\* ---------------------------------------------------------------------------
\* Tool schema conversion
\* ---------------------------------------------------------------------------
ToolOf(sch) ==
    [name |-> ReplaceFirst(sch.name, ".", "_"), description |-> sch.description,
     parameters |-> sch.parameters]

RECURSIVE ConvertFrom(_, _)
ConvertFrom(list, i) ==
    IF i > Len(list) THEN <<>>
    ELSE (IF Includes(list[i].name, ".") THEN <<ToolOf(list[i])>> ELSE <<>>)
         \o ConvertFrom(list, i + 1)

convertSchemasToTools == ConvertFrom(schemas, 1)

RECURSIVE ConvertNamed(_, _)
ConvertNamed(names, i) ==
    IF i > Len(names) THEN <<>>
    ELSE (IF SchemaGet(names[i]) = {} THEN <<>>
          ELSE <<ToolOf(CHOOSE sch \in SchemaGet(names[i]) : TRUE)>>)
         \o ConvertNamed(names, i + 1)

convertSpecificSchemas(names) == ConvertNamed(names, 1)

\* ---------------------------------------------------------------------------
\* Provider requests issued by ask() and chat()
\* ---------------------------------------------------------------------------
Request(op, tools, text, system, turns) ==
    [op |-> op, tools |-> tools, prompt |-> text, systemPrompt |-> system,
     messages |-> turns]

\* ask(prompt, options): provider.tools when tools are given, else provider.ask
ask(text, tools, system) ==
    IF Len(tools) > 0
    THEN Request("tools", tools, text, system, <<>>)
    ELSE Request("ask", <<>>, text, system, <<>>)

\* chat(messages, options): provider.tools on the last message when
\* options.tools is non-empty, else provider.chat
chat(turns, opts) ==
    IF Len(opts.tools) > 0
    THEN Request("tools", opts.tools, turns[Len(turns)].content, opts.systemPrompt, <<>>)
    ELSE Request("chat", <<>>, <<>>, opts.systemPrompt, turns)

\* ---------------------------------------------------------------------------
\* executeToolCalls
\* ---------------------------------------------------------------------------
ToolExecutionResult(tc, result, error) ==
    [toolCallId |-> tc.id, toolName |-> tc.name, result |-> result, error |-> error]

\* variant: the tool name is looked up as it was sent
CapabilityName_AsSent(tc) == tc.name

\* reverse of the '.' to '_' substitution applied when the tool was exposed
CapabilityName(tc) == ReplaceFirst(tc.name, "_", ".")

NotFoundError(name) == <<"Capability '">> \o name \o <<"' not found">>
SyntaxErrorMessage == <<"Unexpected end of JSON input">>

\* variant: the arguments are always taken to be JSON text
ResolveArguments_AlwaysParse(args) == JSONParse(args.text)

\* typeof arguments === "string" ? JSON.parse(arguments) : arguments
ResolveArguments(args) ==
    IF args.kind = "string" THEN JSONParse(args.text) ELSE Good(args.value)

\* does handling tc reach this.execute(capabilityName, parsedArgs)?
Executes(tc) == can(CapabilityName(tc)) /\ ResolveArguments(tc.arguments).ok

\* variant: a missing capability is reported as a success without a value
ResultOf_SilentNotFound(tc, o) ==
    IF ~can(CapabilityName(tc))
    THEN ToolExecutionResult(tc, Null, None)
    ELSE IF ~ResolveArguments(tc.arguments).ok
    THEN ToolExecutionResult(tc, Null, Some(SyntaxErrorMessage))
    ELSE IF o.kind = "return"
    THEN ToolExecutionResult(tc, o.value, None)
    ELSE IF o.kind = "throwError"
    THEN ToolExecutionResult(tc, Null, Some(o.message))
    ELSE ToolExecutionResult(tc, Null, Some(<<"Unknown execution error">>))

\* variant: the message of a thrown Error is not kept
ResultOf_NoMessage(tc, o) ==
    IF ~can(CapabilityName(tc))
    THEN ToolExecutionResult(tc, Null, Some(NotFoundError(CapabilityName(tc))))
    ELSE IF ~ResolveArguments(tc.arguments).ok
    THEN ToolExecutionResult(tc, Null, Some(SyntaxErrorMessage))
    ELSE IF o.kind = "return"
    THEN ToolExecutionResult(tc, o.value, None)
    ELSE ToolExecutionResult(tc, Null, Some(<<"Unknown execution error">>))

\* the result pushed for tool call tc when its capability (if run) ends as o
ResultOf(tc, o) ==
    IF ~can(CapabilityName(tc))
    THEN ToolExecutionResult(tc, Null, Some(NotFoundError(CapabilityName(tc))))
    ELSE IF ~ResolveArguments(tc.arguments).ok
    THEN ToolExecutionResult(tc, Null, Some(SyntaxErrorMessage))
    ELSE IF o.kind = "return"
    THEN ToolExecutionResult(tc, o.value, None)
    ELSE IF o.kind = "throwError"
    THEN ToolExecutionResult(tc, Null, Some(o.message))
    ELSE ToolExecutionResult(tc, Null, Some(<<"Unknown execution error">>))

\* variant: results.unshift(...)
PushResult_Unshift(results, r) == <<r>> \o results

\* results.push(...)
PushResult(results, r) == Append(results, r)

\* variant: the loop ends after the first tool call
NextStep_FirstOnly(tc, i, calls) == "continue"

\* variant: a missing capability breaks out of the loop
NextStep_Break(tc, i, calls) ==
    IF ~can(CapabilityName(tc)) \/ i = Len(calls) THEN "continue" ELSE "executing"

\* the for loop goes on to the next tool call, whatever became of this one,
\* and ends after the last
NextStep(tc, i, calls) == IF i = Len(calls) THEN "continue" ELSE "executing"

\* Object.values(v): the values of an object in key order
RECURSIVE ObjectValues(_, _)
ObjectValues(v, i) ==
    IF i > Len(ArgKeys) THEN <<>>
    ELSE LET hit == {p \in v.pairs : p[1] = ArgKeys[i]}
         IN (IF hit = {} THEN <<>> ELSE <<(CHOOSE p \in hit : TRUE)[2]>>)
            \o ObjectValues(v, i + 1)

\* variant: this.execute(capabilityName, ...Object.values(parsedArgs))
Execution_Spread(tc, o) ==
    [toolCallId |-> tc.id, name |-> CapabilityName(tc),
     args |-> ResolveArguments(tc.arguments).value,
     argv |-> ObjectValues(ResolveArguments(tc.arguments).value, 1),
     outcome |-> o]

\* the record of one capability run: this.execute(capabilityName, parsedArgs),
\* argv being the arguments after the capability name
Execution(tc, o) ==
    [toolCallId |-> tc.id, name |-> CapabilityName(tc),
     args |-> ResolveArguments(tc.arguments).value,
     argv |-> << ResolveArguments(tc.arguments).value >>,
     outcome |-> o]

\* ---------------------------------------------------------------------------
\* Provider adapters: tools() turns the vendor's reply into an AIResponse
\* ---------------------------------------------------------------------------
\* the backends AIOperator.create() constructs
ProviderTypes ==
    {"openai", "claude", "anthropic", "deepseek", "grok", "gemini", "mistral",
     "openrouter"}

\* adapters that JSON.parse the arguments of every tool call they receive
ParsingAdapters == {"openai", "openrouter", "deepseek", "grok"}

\* adapters that take tool calls out of content blocks / parts
BlockAdapters == {"claude", "anthropic", "gemini"}

AdapterLabel(type) ==
    CASE type = "openai" -> "OpenAI"
      [] type = "openrouter" -> "OpenRouter"
      [] type = "deepseek" -> "DeepSeek"
      [] type = "grok" -> "Grok"
      [] type = "mistral" -> "Mistral"
      [] type = "gemini" -> "Gemini"
      [] type = "bedrock" -> "Bedrock"
      [] OTHER -> "Claude"

\* the vendor's reply: message.content (may be null) and message.tool_calls
VendorReply(content, has, list) ==
    [content |-> content, hasToolCalls |-> has, toolCalls |-> list]

NoVendorResponse == VendorReply(None, FALSE, <<>>)

\* the arguments of one tool call as the adapter hands them on
AdaptArguments(type, args) ==
    IF type \in ParsingAdapters
    THEN \* JSON.parse(call.function.arguments)
         LET parsed == IF args.kind = "string" THEN JSONParse(args.text) ELSE Bad
         IN [ok |-> parsed.ok, arguments |-> ObjectArgs(parsed.value)]
    ELSE IF type = "mistral"
    THEN \* parsed when it is a string that parses, else handed on as it came
         LET parsed == IF args.kind = "string" THEN JSONParse(args.text) ELSE Bad
         IN [ok |-> TRUE,
             arguments |-> IF parsed.ok THEN ObjectArgs(parsed.value) ELSE args]
    ELSE [ok |-> TRUE, arguments |-> args]

\* Gemini sends no id: the adapter makes one from the clock and the index
GeneratedId(i) == <<"call", "now", i - 1>>

AdaptCall(type, vc, i) ==
    [id |-> IF type = "gemini" THEN GeneratedId(i) ELSE vc.id,
     name |-> vc.name,
     arguments |-> AdaptArguments(type, vc.arguments).arguments]

\* does the adapter set toolCalls on its AIResponse?
AdapterSetsToolCalls(type, v) ==
    IF type \in BlockAdapters THEN Len(v.toolCalls) > 0 ELSE v.hasToolCalls

\* the AIError thrown from the catch of tools()
AdapterFailure(type) == <<AdapterLabel(type) \o " tools failed: ">> \o SyntaxErrorMessage

\* provider.tools(): the AIResponse, or the error the adapter throws
AdapterTools(type, v) ==
    LET present == AdapterSetsToolCalls(type, v)
        failed == \E i \in 1..Len(v.toolCalls) :
                      ~AdaptArguments(type, v.toolCalls[i].arguments).ok
    IN IF present /\ failed
       THEN [ok |-> FALSE, response |-> NoResponse, error |-> AdapterFailure(type)]
       ELSE [ok |-> TRUE,
             response |->
                 Response(IF v.content.has THEN v.content.text ELSE <<>>,
                          present,
                          IF present
                          THEN [i \in 1..Len(v.toolCalls) |->
                                   AdaptCall(type, v.toolCalls[i], i)]
                          ELSE <<>>),
             error |-> <<>>]

\* ---------------------------------------------------------------------------
\* Provider adapters: the request body ask(), chat() and tools() send
\* ---------------------------------------------------------------------------
\* tools: toolDefinitions, the descriptor nested under function
FunctionTool(tool) ==
    [type |-> "function",
     function |-> [name |-> tool.name, description |-> tool.description,
                   parameters |-> tool.parameters]]

\* variant: required is not copied into input_schema
AnthropicTool_NoRequired(tool) ==
    [name |-> tool.name, description |-> tool.description,
     input_schema |-> [type |-> "object",
                       properties |-> tool.parameters.properties,
                       required |-> None]]

\* convertToAnthropicTools: flat, the parameters under input_schema
AnthropicTool(tool) ==
    [name |-> tool.name, description |-> tool.description,
     input_schema |-> [type |-> "object",
                       properties |-> tool.parameters.properties,
                       required |-> tool.parameters.required]]

\* one entry of functionDeclarations
FunctionDeclaration(tool) ==
    [name |-> tool.name, description |-> tool.description,
     parameters |-> tool.parameters]

\* the tools member of the body
VendorTools(type, tools) ==
    IF type \in {"claude", "anthropic"}
    THEN [i \in 1..Len(tools) |-> AnthropicTool(tools[i])]
    ELSE IF type = "gemini"
    THEN << [functionDeclarations |->
                [i \in 1..Len(tools) |-> FunctionDeclaration(tools[i])]] >>
    ELSE [i \in 1..Len(tools) |-> FunctionTool(tools[i])]

\* a request body: the system member (system / systemInstruction), the
\* messages or contents, and the tools
Body(system, turns, tools) == [system |-> system, messages |-> turns, tools |-> tools]

DefaultSystemPrompt ==
    <<"You are a helpful assistant with access to tools. Use them when appropriate.">>
DefaultPrompt == <<"Please help me with this task.">>

\* if (request.systemPrompt) / if (request.prompt): a turn only for a non-empty text
SystemTurn(system) ==
    IF system.has /\ Truthy(system.text) THEN << Turn("system", system.text) >> ELSE <<>>
UserTurn(text) == IF Truthy(text) THEN << Turn("user", text) >> ELSE <<>>

NotSystem(turn) == turn.role # "system"

\* Mistral.chat drops assistant turns without text
NotEmptyAssistant(turn) == ~(turn.role = "assistant" /\ ~Truthy(Trim(turn.content)))

\* Gemini knows the roles model and user
GeminiTurn(turn) == Turn(IF turn.role = "assistant" THEN "model" ELSE "user", turn.content)

\* ask(prompt, options): every adapter sends the prompt as the one user turn
AskBody(type, req) == Body(None, << Turn("user", req.prompt) >>, <<>>)

\* tools(toolDefinitions, request)
ToolsBody(type, req) ==
    IF type \in {"claude", "anthropic"}
    THEN Body(req.systemPrompt, << Turn("user", req.prompt) >>,
              VendorTools(type, req.tools))
    ELSE IF type = "gemini"
    THEN Body(None, UserTurn(req.prompt), VendorTools(type, req.tools))
    ELSE IF type = "mistral"
    THEN Body(None,
              << Turn("system", IF req.systemPrompt.has /\ Truthy(req.systemPrompt.text)
                                THEN req.systemPrompt.text ELSE DefaultSystemPrompt),
                 Turn("user", IF Truthy(req.prompt) THEN req.prompt ELSE DefaultPrompt) >>,
              VendorTools(type, req.tools))
    ELSE Body(None, SystemTurn(req.systemPrompt) \o UserTurn(req.prompt),
              VendorTools(type, req.tools))

\* chat(messages, options)
ChatBody(type, req) ==
    IF type \in {"claude", "anthropic"}
    THEN Body(req.systemPrompt, SelectSeq(req.messages, NotSystem), <<>>)
    ELSE IF type = "gemini"
    THEN LET kept == SelectSeq(req.messages, NotSystem)
         IN Body(IF req.systemPrompt.has /\ Truthy(req.systemPrompt.text)
                 THEN req.systemPrompt ELSE None,
                 [i \in 1..Len(kept) |-> GeminiTurn(kept[i])], <<>>)
    ELSE IF type = "mistral"
    THEN Body(None, SelectSeq(req.messages, NotEmptyAssistant), <<>>)
    ELSE IF type = "openrouter"
    THEN Body(None, req.messages, <<>>)
    ELSE Body(None, SystemTurn(req.systemPrompt) \o req.messages, <<>>)

\* the body the adapter of the backend sends for a request of the operator
VendorBody(type, req) ==
    CASE req.op = "ask" -> AskBody(type, req)
      [] req.op = "tools" -> ToolsBody(type, req)
      [] OTHER -> ChatBody(type, req)

\* ---------------------------------------------------------------------------
\* Provider adapters: the errors ask(), chat() and tools() throw
\* ---------------------------------------------------------------------------
\* the ways a round-trip fails: a non-2xx reply, or fetch rejects
Failures == {"status", "network"}

AdapterOps == {"ask", "chat", "tools"}

\* an error object: the class it is an instance of, its provider tag, its text
Thrown(name, provider, message) ==
    [raised |-> TRUE, name |-> name, provider |-> provider, message |-> message]

NotThrown == [raised |-> FALSE, name |-> "none", provider |-> None, message |-> <<>>]

\* the second argument of new AIError(...) in the adapter
AdapterTag(type) == IF type = "anthropic" THEN "claude" ELSE type

\* the text fetch rejects with
FetchFailed == <<"fetch failed">>

\* what ask(), chat() or tools() of the adapter throws when the round-trip fails
AdapterError(type, op, f) ==
    IF type = "mistral"
    THEN \* a plain Error from callMistral, wrapped in a plain Error by chat()
         Thrown("Error", None,
                <<"Mistral provider error: ">>
                \o (IF f = "status"
                    THEN <<"Mistral API error (", "status", "): ", "body">>
                    ELSE FetchFailed))
    ELSE IF type = "bedrock"
    THEN \* callBedrock rethrows whatever is an Error
         IF f = "status"
         THEN Thrown("Error", None, <<"Bedrock API error: ", "status", " - ", "body">>)
         ELSE Thrown("TypeError", None, FetchFailed)
    ELSE IF f = "status"
    THEN Thrown("AIError", Some(AdapterTag(type)),
                <<AdapterLabel(type) \o " API error: ", "status", " ", "statusText">>
                \o (IF type = "gemini" \/ (type \in {"claude", "anthropic"} /\ op = "tools")
                    THEN <<" - ", "body">> ELSE <<>>))
    ELSE Thrown("AIError", Some(AdapterTag(type)),
                <<AdapterLabel(type) \o " " \o op \o " failed: ">> \o FetchFailed)

\* ---------------------------------------------------------------------------
\* Provider adapters: validateConnection()
\* ---------------------------------------------------------------------------
\* the adapter classes: the backends of create() and the Bedrock adapter
AdapterClasses == ProviderTypes \cup {"bedrock"}

\* what the vendor's endpoint does with a request: a 2xx reply with a
\* completion, a 2xx reply whose completion is empty, a 2xx reply without any
\* choice, a non-2xx reply, or no reply (fetch rejects)
NetOutcomes == {"ok", "blank", "nochoice", "status", "network"}

\* adapters whose validateConnection() is one ask(), not a bare fetch
AskProbes == {"mistral", "openrouter", "bedrock"}

\* ask() as validateConnection() awaits it: settled or thrown, and the
\* content (the adapters put '' for a missing text; Mistral wants a choice)
ProbeAsk(type, net) ==
    IF net \in {"status", "network"} \/ (type = "mistral" /\ net = "nochoice")
    THEN [ok |-> FALSE, content |-> <<>>]
    ELSE [ok |-> TRUE, content |-> IF net = "ok" THEN <<"pong">> ELSE <<>>]

ProbeResolved(b) == [kind |-> "resolved", value |-> b]
ProbeRejected == [kind |-> "rejected", value |-> FALSE]

\* variant: the rejection of fetch is not caught
validateConnection_NoCatch(type, net) ==
    IF net = "network" THEN ProbeRejected
    ELSE IF type \in AskProbes
    THEN LET r == ProbeAsk(type, net)
         IN ProbeResolved(r.ok /\ (type = "bedrock" => Len(r.content) > 0))
    ELSE ProbeResolved(net \notin {"status", "network"})

\* try { ... } catch { return false }: the answer of ask(), or response.ok
validateConnection(type, net) ==
    IF type \in AskProbes
    THEN LET r == ProbeAsk(type, net)
         IN IF ~r.ok THEN ProbeResolved(FALSE)
            ELSE IF type = "bedrock" THEN ProbeResolved(Len(r.content) > 0)
            ELSE ProbeResolved(TRUE)
    ELSE IF net = "network" THEN ProbeResolved(FALSE)
    ELSE ProbeResolved(net # "status")

Probe(via, type, net, answer) ==
    [via |-> via, type |-> type, net |-> net, answer |-> answer]

NotProbed == Probe("none", "none", "none", ProbeResolved(FALSE))

\* ---------------------------------------------------------------------------
\* Continuation of the conversation
\* ---------------------------------------------------------------------------
\* JSON.stringify(r.result) inside a template literal
StringifyResult(v) == IF v.t = "undef" THEN <<"undefined">> ELSE JSONStringify(v)

ResultLine(r) == r.toolName \o <<": ">> \o StringifyResult(r.result)

ToolResultsContent(results) ==
    <<"Tool results:", "\n">>
    \o Join([i \in 1..Len(results) |-> ResultLine(results[i])], "\n")

\* variant: the response text is not trimmed before it is tested
FollowUpMessages_NoTrim(base, initial, results) ==
    (IF Truthy(initial.content)
     THEN Append(base, Turn("assistant", initial.content))
     ELSE base)
    \o << Turn("user", ToolResultsContent(results)) >>

\* the assistant turn is added only when the response text is not blank
FollowUpMessages(base, initial, results) ==
    (IF Truthy(Trim(initial.content))
     THEN Append(base, Turn("assistant", initial.content))
     ELSE base)
    \o << Turn("user", ToolResultsContent(results)) >>

\* variant: the length of toolCalls is not looked at
HasToolCalls_AnyList(r) == r.hasToolCalls

\* initialResponse.toolCalls && initialResponse.toolCalls.length > 0
HasToolCalls(r) == r.hasToolCalls /\ Len(r.toolCalls) > 0

\* variant: the follow-up response is returned as the provider sent it
PreserveToolCalls_Unchanged(final, initial) == final

\* finalResponse.toolCalls = initialResponse.toolCalls
PreserveToolCalls(final, initial) ==
    [final EXCEPT !.hasToolCalls = initial.hasToolCalls,
                  !.toolCalls = initial.toolCalls]

\* ---------------------------------------------------------------------------
\* call() and chatWithTools(), one action per step between awaits
\* ---------------------------------------------------------------------------
\* variant: the named schemas take precedence over useTools
CallTools_SchemasFirst(opts) ==
    opts.tools \o
      (IF opts.schemas.has THEN convertSpecificSchemas(opts.schemas.list)
       ELSE IF opts.useTools THEN convertSchemasToTools
       ELSE <<>>)

\* let tools = options?.tools || []; then the learned or the named descriptors
CallTools(opts) ==
    opts.tools \o
      (IF opts.useTools THEN convertSchemasToTools
       ELSE IF opts.schemas.has THEN convertSpecificSchemas(opts.schemas.list)
       ELSE <<>>)

ChatTools(opts) == opts.tools \o convertSchemasToTools

ChatSystemPrompt(msgs, opts) ==
    IF msgs[1].role = "system" THEN Some(msgs[1].content) ELSE opts.systemPrompt

\* variant: the request is issued a second time
Send_Twice(sent, request) == Append(Append(sent, request), request)

\* one provider round-trip per await of ask() / chat()
Send(sent, request) == Append(sent, request)

\* variant: the learned descriptors are renamed in place while they are
\* converted
StartCall_RenamesInPlace(p, opts) ==
    /\ pc = "idle"
    /\ pc' = "round1"
    /\ method' = "call"
    /\ prompt' = p
    /\ messages' = <<>>
    /\ options' = opts
    /\ requests' = Send(<<>>, ask(p, CallTools(opts), opts.systemPrompt))
    /\ wire' = << VendorBody(providerType, requests'[1]) >>
    /\ schemas' = IF opts.useTools
                  THEN [k \in 1..Len(schemas) |->
                          [schemas[k] EXCEPT !.name = ReplaceFirst(@, ".", "_")]]
                  ELSE schemas
    /\ UNCHANGED <<capabilities, learnError, evolved, providerType, vendorResponse,
                   connection, thrown, creation, conversation, initialResponse, idx,
                   toolResults, executed, started, finalResponse, outcome>>

StartCall(p, opts) ==
    /\ pc = "idle"
    /\ pc' = "round1"
    /\ method' = "call"
    /\ prompt' = p
    /\ messages' = <<>>
    /\ options' = opts
    /\ requests' = Send(<<>>, ask(p, CallTools(opts), opts.systemPrompt))
    /\ wire' = << VendorBody(providerType, requests'[1]) >>
    /\ UNCHANGED <<registry, providerType, vendorResponse, connection, thrown, creation,
                   conversation, initialResponse, idx, toolResults, executed, started,
                   finalResponse, outcome>>

StartChatWithTools(msgs, opts) ==
    /\ pc = "idle"
    /\ pc' = "round1"
    /\ method' = "chatWithTools"
    /\ prompt' = <<>>
    /\ messages' = msgs
    /\ options' = opts
    /\ requests' = Send(<<>>, ask(msgs[Len(msgs)].content, ChatTools(opts),
                                   ChatSystemPrompt(msgs, opts)))
    /\ wire' = << VendorBody(providerType, requests'[1]) >>
    /\ UNCHANGED <<registry, providerType, vendorResponse, connection, thrown, creation,
                   conversation, initialResponse, idx, toolResults, executed, started,
                   finalResponse, outcome>>

\* call()/chatWithTools() after the await of round 1 has given r
Accept1(r) ==
    /\ initialResponse' = r
    /\ IF HasToolCalls(r)
       THEN /\ pc' = IF Len(r.toolCalls) = 0 THEN "continue" ELSE "executing"
            /\ idx' = 1
            /\ outcome' = outcome
       ELSE /\ pc' = "returned"
            /\ idx' = idx
            /\ outcome' = Resolved(r)

\* the provider answers round 1
Respond1(r) ==
    /\ pc = "round1"
    /\ Accept1(r)
    /\ UNCHANGED <<registry, backend, conversation, invocation, toolResults, executed, started, requests,
                   finalResponse>>

\* the vendor answers a tools request of round 1 with v: the adapter's tools()
\* hands on an AIResponse, or throws and the await rejects the invocation
VendorRespond1(v) ==
    /\ pc = "round1"
    /\ requests[1].op = "tools"
    /\ vendorResponse' = v
    /\ LET a == AdapterTools(providerType, v)
       IN IF a.ok
          THEN Accept1(a.response) /\ UNCHANGED thrown
          ELSE /\ pc' = "returned"
               /\ outcome' = Rejected(a.error)
               /\ thrown' = Thrown("AIError", Some(AdapterTag(providerType)), a.error)
               /\ UNCHANGED <<initialResponse, idx>>
    /\ UNCHANGED <<registry, providerType, connection, wire, creation, invocation, toolResults,
                   executed, started, requests, finalResponse, conversation>>

\* variant: a failed round-trip is issued again
ProviderFails_Retry ==
    /\ pc \in {"round1", "round2"}
    /\ requests' = Send(requests, requests[Len(requests)])
    /\ UNCHANGED <<registry, backend, conversation, invocation, pc, initialResponse, idx,
                   toolResults, executed, started, finalResponse, outcome>>

\* a provider round-trip fails: the await throws out of call()/chatWithTools()
ProviderFails ==
    /\ pc \in {"round1", "round2"}
    /\ pc' = "returned"
    /\ outcome' = Rejected(ProviderError)
    /\ UNCHANGED <<registry, backend, conversation, invocation, initialResponse, idx, toolResults,
                   executed, started, requests, finalResponse>>

\* one iteration of the for loop of executeToolCalls
ExecuteToolCall(o) ==
    /\ pc = "executing"
    /\ LET tc == initialResponse.toolCalls[idx]
       IN /\ toolResults' = PushResult(toolResults, ResultOf(tc, o))
          /\ executed' = IF Executes(tc) THEN Append(executed, Execution(tc, o))
                         ELSE executed
          /\ pc' = NextStep(tc, idx, initialResponse.toolCalls)
    /\ idx' = idx + 1
    /\ started' = idx
    /\ UNCHANGED <<registry, backend, conversation, invocation, initialResponse, requests, finalResponse,
                   outcome>>

\* variant: the iterations are begun without awaiting the one before
MayBegin_Eager(begun, finished) == TRUE

\* for (...) { ... await this.execute(...) ... }: an iteration begins when
\* every iteration begun before it has pushed its result
MayBegin(begun, finished) == begun = finished

\* the same loop at the grain of its await: an iteration begins ...
BeginToolCall ==
    /\ pc = "executing"
    /\ started < Len(initialResponse.toolCalls)
    /\ MayBegin(started, Len(toolResults))
    /\ started' = started + 1
    /\ UNCHANGED <<registry, backend, conversation, invocation, initialResponse, idx,
                   toolResults, executed, requests, finalResponse, outcome, pc>>

\* ... and ends, when execute() has settled with o or the call was refused
EndToolCall(o) ==
    /\ pc = "executing"
    /\ started > Len(toolResults)
    /\ LET i == Len(toolResults) + 1
           tc == initialResponse.toolCalls[i]
       IN /\ toolResults' = PushResult(toolResults, ResultOf(tc, o))
          /\ executed' = IF Executes(tc) THEN Append(executed, Execution(tc, o))
                         ELSE executed
          /\ pc' = NextStep(tc, i, initialResponse.toolCalls)
          /\ idx' = i + 1
    /\ UNCHANGED <<registry, backend, conversation, invocation, initialResponse,
                   started, requests, finalResponse, outcome>>

\* the conversation handed to chat() for the follow-up round
BaseMessages ==
    IF method = "call" THEN << Turn("user", prompt) >> ELSE messages

Continue ==
    /\ pc = "continue"
    /\ pc' = "round2"
    /\ conversation' = FollowUpMessages(BaseMessages, initialResponse, toolResults)
    /\ requests' = Send(requests, chat(conversation', options))
    /\ wire' = Append(wire, VendorBody(providerType, requests'[Len(requests')]))
    /\ UNCHANGED <<registry, providerType, vendorResponse, connection, thrown, creation,
                   invocation, initialResponse, idx, toolResults, executed, started,
                   finalResponse, outcome>>

\* the provider answers the follow-up round
Respond2(r) ==
    /\ pc = "round2"
    /\ pc' = "returned"
    /\ finalResponse' = r
    /\ outcome' = Resolved(PreserveToolCalls(r, initialResponse))
    /\ UNCHANGED <<registry, backend, conversation, invocation, initialResponse, idx, toolResults,
                   executed, started, requests>>

\* the caller has the result; the operator keeps nothing of the invocation
Return ==
    /\ pc = "returned"
    /\ pc' = "idle"
    /\ method' = "none"
    /\ prompt' = <<>>
    /\ messages' = <<>>
    /\ options' = NoOptions
    /\ initialResponse' = NoResponse
    /\ idx' = 0
    /\ toolResults' = <<>>
    /\ executed' = <<>>
    /\ started' = 0
    /\ requests' = <<>>
    /\ finalResponse' = NoResponse
    /\ outcome' = NoOutcome
    /\ conversation' = <<>>
    /\ vendorResponse' = NoVendorResponse
    /\ thrown' = NotThrown
    /\ wire' = <<>>
    /\ UNCHANGED <<registry, providerType, connection, creation>>

\* a round-trip of the backend fails with f: the adapter throws, and the await
\* in call()/chatWithTools() rejects the invocation with what it threw
VendorFails(f) ==
    /\ pc \in {"round1", "round2"}
    /\ pc' = "returned"
    /\ thrown' = AdapterError(providerType, requests[Len(requests)].op, f)
    /\ outcome' = Rejected(thrown'.message)
    /\ UNCHANGED <<registry, providerType, vendorResponse, connection, wire, creation,
                   conversation, invocation, initialResponse, idx, toolResults, executed, started, requests,
                   finalResponse>>

\* ask(), chat() or tools() called on an adapter instance itself fails with f
AdapterFails(type, op, f) ==
    /\ pc = "idle"
    /\ thrown' = AdapterError(type, op, f)
    /\ UNCHANGED <<registry, providerType, vendorResponse, connection, wire, creation, pc,
                   invocation,
                   initialResponse, idx, toolResults, executed, started, requests,
                   finalResponse, outcome, conversation>>

\* AIOperator.validateConnection(): awaits the backend's and hands it on
ValidateConnection(net) ==
    /\ connection' = Probe("operator", providerType, net,
                           validateConnection(providerType, net))
    /\ UNCHANGED <<registry, providerType, vendorResponse, thrown, wire, creation, pc,
                   invocation,
                   initialResponse, idx, toolResults, executed, started, requests,
                   finalResponse, outcome, conversation>>

\* validateConnection() called on an adapter instance itself
ProbeAdapter(type, net) ==
    /\ connection' = Probe("adapter", type, net, validateConnection(type, net))
    /\ UNCHANGED <<registry, providerType, vendorResponse, thrown, wire, creation, pc,
                   invocation,
                   initialResponse, idx, toolResults, executed, started, requests,
                   finalResponse, outcome, conversation>>

\* the switch of createBackend: the adapter, or the Error it throws
createBackend(type, apiKey) ==
    IF type \in ProviderTypes
    THEN IF apiKey.has /\ Truthy(apiKey.text)
         THEN [ok |-> TRUE, error |-> <<>>]
         ELSE [ok |-> FALSE, error |-> <<AdapterLabel(type), " provider requires apiKey">>]
    ELSE IF type = "bedrock"
    THEN [ok |-> FALSE, error |-> <<"Bedrock provider not implemented yet">>]
    ELSE [ok |-> FALSE, error |-> <<"Unsupported AI provider: ", type>>]

\* AIOperator.create({ type, options: { apiKey } }): the operator with
\* props.providerType = type, or what createBackend threw
create(type, apiKey) ==
    LET made == createBackend(type, apiKey)
    IN [type |-> type, apiKey |-> apiKey, created |-> made.ok,
        provider |-> IF made.ok THEN type ELSE "none",
        error |-> made.error]

\* the static factory is called for another operator
Create(type, apiKey) ==
    /\ creation' = create(type, apiKey)
    /\ UNCHANGED <<registry, providerType, vendorResponse, connection, thrown, wire,
                   pc, invocation, initialResponse, idx, toolResults, executed, started,
                   requests, finalResponse, outcome, conversation>>

\* the operator AIOperator.create({ type, options }) returns
Created(type) ==
    /\ providerType = type
    /\ vendorResponse = NoVendorResponse
    /\ connection = NotProbed
    /\ thrown = NotThrown
    /\ wire = <<>>
    /\ creation = create(type, Some(<<"sk-test">>))
    /\ conversation = <<>>
    /\ capabilities = {}
    /\ schemas = <<>>
    /\ learnError = None
    /\ evolved = NotEvolved
    /\ pc = "idle"
    /\ method = "none"
    /\ prompt = <<>>
    /\ messages = <<>>
    /\ options = NoOptions
    /\ initialResponse = NoResponse
    /\ idx = 0
    /\ toolResults = <<>>
    /\ executed = <<>>
    /\ started = 0
    /\ requests = <<>>
    /\ finalResponse = NoResponse
    /\ outcome = NoOutcome

\* an operator on the backend whose adapter hands tool-call arguments on in
\* every form of Responses1 (decoded, or as the text that did not parse); what
\* the other adapters make of a vendor reply is the subject of AdapterSpec
Init == Created("mistral")

Next ==
    \/ \E c \in Contracts : Learn(c)
    \/ \E p \in Prompts, opts \in OptionChoices : StartCall(p, opts)
    \/ \E msgs \in MessageChoices, opts \in ChatOptionChoices : StartChatWithTools(msgs, opts)
    \/ \E r \in Responses1 : Respond1(r)
    \/ ProviderFails
    \/ \E o \in Outcomes : ExecuteToolCall(o)
    \/ Continue
    \/ \E r \in Responses2 : Respond2(r)
    \/ Return

Spec == Init /\ [][Next]_vars

\* ---------------------------------------------------------------------------
\* Properties
\* ---------------------------------------------------------------------------
\* the hard-wired number of provider round-trips of one invocation: the
\* initial ask() and the single follow-up chat()
RoundLimit == 2

calls == initialResponse.toolCalls

\* the response carries at least one tool call
CarriesToolCalls(r) == r.hasToolCalls /\ r.toolCalls # <<>>

\* the text a request conveys as its latest turn
Conveyed(req) ==
    IF req.op = "chat" THEN req.messages[Len(req.messages)].content ELSE req.prompt

\* e occurs in t as a contiguous run of pieces
IsSubSeq(e, t) ==
    \E k \in 0..(Len(t) - Len(e)) : \A j \in 1..Len(e) : t[k + j] = e[j]

\* executeToolCalls has returned
RoundExecuted == pc \in {"continue", "round2", "returned"} /\ CarriesToolCalls(initialResponse)

\* the follow-up request has been issued
FollowUpSent == pc \in {"round2", "returned"} /\ Len(requests) = 2

\* the follow-up response has arrived and the invocation has returned it
FollowUpReturned == pc = "returned" /\ outcome.kind = "resolved" /\ Len(requests) = 2

\* C1: when the tool calls of round 1 were executed and a later response was
\* obtained, the returned AIResponse carries exactly the tool calls of round 1,
\* in order, whatever the later response carried, and the later response's text.
C1_OriginatingToolCallsPreserved ==
    FollowUpReturned =>
        /\ outcome.response.hasToolCalls
        /\ outcome.response.toolCalls = initialResponse.toolCalls
        /\ outcome.response.content = finalResponse.content

C1_Witness ==
    /\ FollowUpReturned
    /\ Len(executed) > 0
    /\ CarriesToolCalls(finalResponse)
    /\ finalResponse.toolCalls # initialResponse.toolCalls
    /\ finalResponse.content # initialResponse.content

CallIds(r) == {r.toolCalls[i].id : i \in 1..Len(r.toolCalls)}
ResultIds == {toolResults[i].toolCallId : i \in 1..Len(toolResults)}
ExecutedIds == {executed[k].toolCallId : k \in 1..Len(executed)}

LimitReached ==
    /\ pc = "returned"
    /\ Len(requests) = RoundLimit
    /\ CarriesToolCalls(initialResponse)
    /\ CarriesToolCalls(finalResponse)

C5_NoToolCallsReturnsFirstResponse ==
    /\ (pc = "returned" /\ outcome.kind = "resolved" /\ ~CarriesToolCalls(initialResponse)) =>
          /\ outcome.response = initialResponse
          /\ Len(requests) = 1
          /\ executed = <<>>
          /\ toolResults = <<>>
    /\ pc \in {"executing", "continue", "round2"} => CarriesToolCalls(initialResponse)

C5_Witness ==
    /\ pc = "returned" /\ outcome.kind = "resolved"
    /\ initialResponse.hasToolCalls
    /\ Len(initialResponse.toolCalls) = 0
    /\ capabilities # {}
    /\ Len(requests[1].tools) > 0

Missing(i) == ~can(CapabilityName(calls[i]))

\* C6: a tool call naming a capability absent from the registry yields one
\* result with an error and a null result; the other tool calls of the round
\* are still run and the follow-up round is sent.
C6_MissingCapabilityDoesNotAbort ==
    \A i \in 1..Len(calls) : Missing(i) =>
        /\ i <= Len(toolResults) =>
              /\ toolResults[i].toolCallId = calls[i].id
              /\ toolResults[i].error = Some(NotFoundError(CapabilityName(calls[i])))
              /\ toolResults[i].result = Null
        /\ calls[i].id \notin ExecutedIds
        /\ RoundExecuted =>
              /\ Len(toolResults) = Len(calls)
              /\ \A j \in 1..Len(calls) : Executes(calls[j]) => calls[j].id \in ExecutedIds
        /\ pc \in {"round2", "returned"} => Len(requests) = 2

C6_Witness ==
    /\ pc = "round2"
    /\ capabilities # {}
    /\ Len(calls) = 2
    /\ Missing(1)
    /\ calls[2].id \in ExecutedIds

\* C7: a capability that throws does not reject the invocation: the failure
\* message is that call's result error, the remaining tool calls are still
\* run, the follow-up round is sent, and the invocation rejects only when a
\* provider round-trip fails.
C7_ThrowingCapabilityIsCaptured ==
    \A k \in 1..Len(executed) : executed[k].outcome.kind # "return" =>
        /\ \E i \in 1..Len(toolResults) :
              /\ toolResults[i].toolCallId = executed[k].toolCallId
              /\ toolResults[i].result = Null
              /\ toolResults[i].error.has
              /\ Truthy(toolResults[i].error.text)
              /\ executed[k].outcome.kind = "throwError" =>
                    toolResults[i].error.text = executed[k].outcome.message
        /\ RoundExecuted =>
              /\ Len(toolResults) = Len(calls)
              /\ \A j \in 1..Len(calls) : Executes(calls[j]) => calls[j].id \in ExecutedIds
        /\ pc \in {"round2", "returned"} => Len(requests) = 2
        /\ pc = "returned" => (outcome.kind = "resolved" \/ outcome.error = ProviderError)

C7_Witness ==
    /\ pc = "returned" /\ outcome.kind = "resolved"
    /\ Len(executed) = 2
    /\ executed[1].outcome.kind = "throwError"
    /\ executed[2].outcome.kind = "return"

\* C8 as claimed: the tool-results turn of the follow-up round contains the
\* error description of every tool call that failed.
C8_FailuresSurfacedToModel ==
    FollowUpSent =>
        \A i \in 1..Len(toolResults) : toolResults[i].error.has =>
            IsSubSeq(toolResults[i].error.text, Conveyed(requests[2]))

\* C9: a response with k tool calls gives exactly k results, the i-th with the
\* id and tool name of the i-th call whether it succeeded or failed, and the
\* tool-results turn lists them in that order.
C9_ResultsInCallOrder ==
    /\ Len(toolResults) <= Len(calls)
    /\ \A i \in 1..Len(toolResults) :
          /\ toolResults[i].toolCallId = calls[i].id
          /\ toolResults[i].toolName = calls[i].name
    /\ RoundExecuted => Len(toolResults) = Len(calls)
    /\ FollowUpSent =>
          Conveyed(requests[2]) =
              <<"Tool results:", "\n">> \o
              Join([i \in 1..Len(calls) |->
                      calls[i].name \o <<": ">> \o StringifyResult(toolResults[i].result)],
                   "\n")

C9_Witness ==
    /\ FollowUpSent
    /\ Len(calls) = 2
    /\ calls[1].name # calls[2].name
    /\ ~toolResults[1].error.has
    /\ toolResults[2].error.has

\* ---------------------------------------------------------------------------
\* Specifications
\* ---------------------------------------------------------------------------
\* every pending step of an invocation is eventually taken: the provider
\* settles each request and each capability returns or throws
Progress ==
    \/ \E r \in Responses1 : Respond1(r)
    \/ ProviderFails
    \/ \E o \in Outcomes : ExecuteToolCall(o)
    \/ Continue
    \/ \E r \in Responses2 : Respond2(r)

FairSpec == Spec /\ WF_vars(Progress)

\* ---------------------------------------------------------------------------
\* Argument decoding: the provider sends the same argument mapping once as
\* JSON text and once decoded
\* ---------------------------------------------------------------------------
ArgOptions == [NoOptions EXCEPT !.useTools = TRUE]

ArgResponses ==
    { Response(<<>>, TRUE,
               << ToolCall(1, [name |-> <<"c", "_", "a">>, arguments |-> StringArgs(t)]),
                  ToolCall(2, [name |-> <<"c", "_", "a">>, arguments |-> ObjectArgs(m)]) >>) :
        <<m, t>> \in { mt \in Mappings \X UNION {Encodings(m) : m \in Mappings} :
                         mt[2] \in Encodings(mt[1]) } }

ArgNext ==
    \/ \E c \in Contracts : Learn(c)
    \/ \E p \in Prompts : StartCall(p, ArgOptions)
    \/ \E r \in ArgResponses : Respond1(r)
    \/ ProviderFails
    \/ \E o \in Outcomes : ExecuteToolCall(o)
    \/ Continue
    \/ \E r \in Responses2 : Respond2(r)
    \/ Return

ArgSpec == Init /\ [][ArgNext]_vars

\* C10: for every argument mapping m, a tool call carrying m as JSON text and
\* a tool call carrying m decoded both reach the capability, which receives a
\* mapping with the contents of m either way.
C10_ArgumentDecodingIsFormatTransparent ==
    \A i \in 1..Len(toolResults) : \A m \in Mappings :
        ( /\ CapabilityName(calls[i]) \in capabilities
          /\ \/ calls[i].arguments = ObjectArgs(m)
             \/ \E t \in Encodings(m) : calls[i].arguments = StringArgs(t) ) =>
            /\ ~toolResults[i].error.has \/ toolResults[i].error.text # SyntaxErrorMessage
            /\ \E k \in 1..Len(executed) :
                  /\ executed[k].toolCallId = calls[i].id
                  /\ executed[k].args = m

C10_Witness ==
    /\ Len(executed) = 2
    /\ calls[1].arguments.kind = "string"
    /\ calls[1].arguments.text[2] = "\"b\""
    /\ calls[2].arguments.kind = "object"
    /\ Cardinality(calls[2].arguments.value.pairs) = 2
    /\ executed[1].args = executed[2].args

\* ---------------------------------------------------------------------------
\* Adapters: the operator is created on any backend and the vendor's reply of
\* round 1 passes through that backend's tools()
\* ---------------------------------------------------------------------------
MalformedText == <<"{", "\"a\"", ":">>

\* the forms in which a vendor of this backend sends tool-call arguments:
\* JSON text on the chat-completions wire, a decoded object in content blocks
VendorArguments(type) ==
    IF type \in BlockAdapters
    THEN {ObjectArgs(FiveArgs), ObjectArgs(Obj({}))}
    ELSE {StringArgs(JSONStringify(FiveArgs)), StringArgs(MalformedText)}
         \cup (IF type = "mistral" THEN {ObjectArgs(FiveArgs)} ELSE {})

VendorCallLists(type) ==
    UNION { { [i \in 1..n |->
                 ToolCall(i, [name |-> <<"c", "_", "a">>, arguments |-> f[i]])] :
              f \in [1..n -> VendorArguments(type)] } : n \in 0..MaxCalls }

VendorReplies(type) ==
    { VendorReply(c, TRUE, l) : c \in {None, Some(<<"hi">>)}, l \in VendorCallLists(type) }
    \cup { VendorReply(c, FALSE, <<>>) : c \in {None, Some(<<"hi">>)} }

AdapterInit == \E type \in ProviderTypes : Created(type)

AdapterNext ==
    \/ \E c \in Contracts : Learn(c)
    \/ \E p \in Prompts : StartCall(p, ArgOptions)
    \/ \E msgs \in MessageChoices : StartChatWithTools(msgs, NoOptions)
    \/ \E r \in {Response(c, FALSE, <<>>) : c \in Contents} : Respond1(r)
    \/ \E v \in VendorReplies(providerType) : VendorRespond1(v)
    \/ \E f \in Failures : VendorFails(f)
    \/ ProviderFails
    \/ \E o \in Outcomes : ExecuteToolCall(o)
    \/ Continue
    \/ \E r \in Responses2 : Respond2(r)
    \/ Return

AdapterSpec == AdapterInit /\ [][AdapterNext]_vars

vendorCalls == vendorResponse.toolCalls

\* the vendor sent the arguments of its i-th tool call as text that is not JSON
MalformedAt(i) ==
    /\ vendorCalls[i].arguments.kind = "string"
    /\ ~JSONParse(vendorCalls[i].arguments.text).ok

WellFormedAt(j) ==
    \/ vendorCalls[j].arguments.kind = "object"
    \/ JSONParse(vendorCalls[j].arguments.text).ok

\* C11 as claimed: on every backend, a vendor reply with a tool call whose
\* arguments are malformed JSON text does not reject the invocation: that call
\* gets a result with an error, the other calls of the reply are still run and
\* the follow-up round is sent.
C11_MalformedArgumentsFailSoft ==
    \A i \in 1..Len(vendorCalls) : MalformedAt(i) =>
        /\ pc = "returned" => (outcome.kind = "resolved" \/ outcome.error = ProviderError)
        /\ i <= Len(toolResults) =>
              /\ toolResults[i].toolCallId = vendorCalls[i].id
              /\ toolResults[i].error.has
              /\ toolResults[i].result = Null
        /\ pc \in {"continue", "round2", "returned"} =>
              /\ Len(toolResults) = Len(vendorCalls)
              /\ \A j \in 1..Len(vendorCalls) :
                    (WellFormedAt(j) /\ can(<<"c", ".", "a">>)) =>
                        vendorCalls[j].id \in ExecutedIds
        /\ pc \in {"round2", "returned"} => Len(requests) = 2

\* ---------------------------------------------------------------------------
\* Failure of a provider round-trip
\* ---------------------------------------------------------------------------
\* C12: when a provider round-trip fails the invocation rejects with that
\* failure and issues no further provider request; no request is ever issued
\* again after or instead of a failure, and when it is the first round-trip
\* that fails no capability has been or will be run.
C12_ProviderFailureRejectsWithoutRetry ==
    [][ /\ (pc \in {"round1", "round2"} /\ outcome'.kind = "rejected") =>
              /\ pc' = "returned"
              /\ outcome'.error = ProviderError
              /\ requests' = requests
              /\ executed' = executed
              /\ toolResults' = toolResults
              /\ pc = "round1" => (executed = <<>> /\ toolResults = <<>>)
        /\ outcome.kind = "rejected" =>
              (pc' = "idle" /\ Len(requests') = 0 /\ executed' = <<>>)
        /\ (Len(requests) > 0 /\ requests' # requests /\ pc' # "idle") =>
              (pc = "continue" /\ Len(requests) = 1)
      ]_vars

C12_Witness ==
    /\ pc = "returned"
    /\ outcome = Rejected(ProviderError)
    /\ Len(requests) = 2
    /\ Len(executed) = 2
    /\ finalResponse = NoResponse

\* ---------------------------------------------------------------------------
\* The conversation of the follow-up round
\* ---------------------------------------------------------------------------
\* the turns the invocation started from
OriginalTurns == IF method = "call" THEN << Turn("user", prompt) >> ELSE messages

\* the turns the invocation appended for the follow-up round
AppendedTurns == SubSeq(conversation, Len(OriginalTurns) + 1, Len(conversation))

\* the text is empty or whitespace only
Blank(text) == \A i \in 1..Len(text) : text[i] \in {" ", "\n"}

\* C13: for the follow-up round the invocation appends an assistant turn with
\* the first response's text exactly when that text is not blank, then exactly
\* one user turn holding the tool results; no appended assistant turn is blank,
\* and the conversation is what chat() hands to the provider.
C13_AssistantTurnIffNonBlank ==
    FollowUpSent =>
        /\ Len(conversation) >= Len(OriginalTurns) + 1
        /\ AppendedTurns =
              (IF Blank(initialResponse.content) THEN <<>>
               ELSE << Turn("assistant", initialResponse.content) >>)
              \o << Turn("user", ToolResultsContent(toolResults)) >>
        /\ \A i \in 1..Len(AppendedTurns) :
              AppendedTurns[i].role = "assistant" => ~Blank(AppendedTurns[i].content)
        /\ requests[2].op = "chat" => requests[2].messages = conversation
        /\ Conveyed(requests[2]) = conversation[Len(conversation)].content

C13_Witness ==
    /\ FollowUpSent
    /\ method = "chatWithTools"
    /\ Len(messages) = 3
    /\ initialResponse.content = <<" ">>
    /\ requests[2].op = "chat"
    /\ Len(requests[2].messages) = 4

\* ---------------------------------------------------------------------------
\* Tool names: units with various ids are learned and the provider calls the
\* tools back under the names they were exposed with
\* ---------------------------------------------------------------------------
\* unit ids and capability names with and without the characters the name
\* substitution touches
NameContracts ==
    { [unitId |-> u,
       caps |-> << [name |-> <<"a">>, tool |-> <<"a">>, description |-> "adds", parameters |-> AddParameters],
                   [name |-> <<"a", "_", "b">>, tool |-> <<"a", "_", "b">>,
                    description |-> "halves",
                    parameters |-> HalveParameters] >>] :
        u \in { <<"c">>, <<"m", "_", "c">>, <<"c", ".", "d">> } }

\* the provider calls one or two of the tools it was offered
NameResponses ==
    LET offered == IF Len(requests) > 0 THEN requests[1].tools ELSE <<>>
        CallOf(i, k) ==
            ToolCall(i, [name |-> offered[k].name, arguments |-> ObjectArgs(FiveArgs)])
    IN { Response(<<>>, TRUE, << CallOf(1, k) >>) : k \in 1..Len(offered) }
       \cup { Response(<<>>, TRUE, << CallOf(1, k), CallOf(2, j) >>) :
                k \in 1..Len(offered), j \in 1..Len(offered) }

NameNext ==
    \/ \E c \in NameContracts : Learn(c)
    \/ \E p \in Prompts : StartCall(p, ArgOptions)
    \/ \E r \in NameResponses : Respond1(r)
    \/ ProviderFails
    \/ \E o \in Outcomes : ExecuteToolCall(o)
    \/ Continue
    \/ \E r \in Responses2 : Respond2(r)
    \/ Return

NameSpec == Init /\ [][NameNext]_vars

\* the k-th tool offered in round 1 of call({useTools}) stands for the k-th
\* learned descriptor
OfferedFor(k) == requests[1].tools[k].name

\* C14 as claimed: for every learned capability name n, a tool call that
\* comes back under the tool name exposed for n is resolved to exactly n, and
\* n is the capability that is run for it.
C14_UnmanglingReversesMangling ==
    (method = "call" /\ Len(requests) > 0 /\ Len(requests[1].tools) = Len(schemas)) =>
        \A i \in 1..Len(toolResults) : \A k \in 1..Len(schemas) :
            calls[i].name = OfferedFor(k) =>
                \E e \in 1..Len(executed) :
                    /\ executed[e].toolCallId = calls[i].id
                    /\ executed[e].name = schemas[k].name

\* ---------------------------------------------------------------------------
\* Tool sets: every combination of useTools, schemas and caller-supplied tools
\* ---------------------------------------------------------------------------
ToolOptionChoices ==
    [ useTools : BOOLEAN,
      schemas : { [has |-> FALSE, list |-> <<>>],
                  [has |-> TRUE, list |-> <<>>],
                  [has |-> TRUE, list |-> << <<"c", ".", "b">>, <<"c", ".", "a">> >>],
                  [has |-> TRUE, list |-> << <<"z", ".", "z">>, <<"c", ".", "a">> >>] },
      tools : { <<>>, <<CustomTool>> },
      systemPrompt : { None } ]

ToolSetResponses ==
    { Response(<<"hi">>, FALSE, <<>>),
      Response(<<>>, TRUE,
               << ToolCall(1, [name |-> <<"c", "_", "a">>,
                                   arguments |-> ObjectArgs(FiveArgs)]) >>) }

ToolSetNext ==
    \/ \E c \in Contracts : Learn(c)
    \/ \E p \in Prompts, opts \in ToolOptionChoices : StartCall(p, opts)
    \/ \E msgs \in MessageChoices, opts \in ToolOptionChoices : StartChatWithTools(msgs, opts)
    \/ \E r \in ToolSetResponses : Respond1(r)
    \/ ProviderFails
    \/ \E o \in Outcomes : ExecuteToolCall(o)
    \/ Continue
    \/ \E r \in Responses2 : Respond2(r)
    \/ Return

ToolSetSpec == Init /\ [][ToolSetNext]_vars

\* the descriptors of all learned schemas, in registration order
LearnedDescriptors == [k \in 1..Len(schemas) |-> ToolOf(schemas[k])]

IsLearnedSchema(name) == \E k \in 1..Len(schemas) : schemas[k].name = name

\* the descriptors of the named schemas that are learned, in the order named
NamedDescriptors(names) ==
    LET known == SelectSeq(names, IsLearnedSchema)
    IN [i \in 1..Len(known) |->
          ToolOf(schemas[CHOOSE k \in 1..Len(schemas) : schemas[k].name = known[i]])]

\* C15: the tool set of round 1 is the caller-supplied descriptors followed by
\* all learned descriptors (call with useTools, and chatWithTools always), by
\* the descriptors of the named schemas in the order named with unknown names
\* skipped (call with schemas only), or by nothing (call otherwise).
C15_ToolSetOfRoundOne ==
    Len(requests) > 0 =>
        requests[1].tools =
            options.tools \o
              (IF method = "chatWithTools" \/ options.useTools THEN LearnedDescriptors
               ELSE IF options.schemas.has THEN NamedDescriptors(options.schemas.list)
               ELSE <<>>)

C15_Witness ==
    /\ method = "call"
    /\ pc = "round1"
    /\ ~options.useTools
    /\ options.schemas.has
    /\ Len(options.schemas.list) = 2
    /\ options.schemas.list[1] = <<"z", ".", "z">>
    /\ Len(options.tools) = 1
    /\ Len(requests[1].tools) = 2
    /\ requests[1].tools[2].name = <<"c", "_", "a">>

\* ---------------------------------------------------------------------------
\* Invocation of a capability
\* ---------------------------------------------------------------------------
\* the runs recorded for the i-th tool call
RunsOf(i) == {k \in 1..Len(executed) : executed[k].toolCallId = calls[i].id}

\* the mapping the i-th tool call carries, whichever way it is encoded
DecodedArguments(i) ==
    IF calls[i].arguments.kind = "object" THEN calls[i].arguments.value
    ELSE JSONParse(calls[i].arguments.text).value

Decodable(i) ==
    calls[i].arguments.kind = "object" \/ JSONParse(calls[i].arguments.text).ok

\* C16: a tool call that resolves to a learned capability and whose arguments
\* decode runs that capability exactly once, with exactly one argument, the
\* decoded mapping itself, and what the capability returns is the result of
\* that call.
C16_ExecutedOnceWithArgumentObject ==
    \A i \in 1..Len(toolResults) :
        (CapabilityName(calls[i]) \in capabilities /\ Decodable(i)) =>
            /\ Cardinality(RunsOf(i)) = 1
            /\ \A k \in RunsOf(i) :
                  /\ executed[k].name = CapabilityName(calls[i])
                  /\ Len(executed[k].argv) = 1
                  /\ executed[k].argv[1] = DecodedArguments(i)
                  /\ executed[k].outcome.kind = "return" =>
                        /\ toolResults[i].result = executed[k].outcome.value
                        /\ ~toolResults[i].error.has

C16_Witness ==
    /\ Len(toolResults) = 2
    /\ Len(executed) = 2
    /\ calls[1].arguments.kind = "string"
    /\ Cardinality(executed[1].argv[1].pairs) = 2
    /\ executed[1].outcome.kind = "return"
    /\ toolResults[1].result = Scalar("num", "8")

\* the capability run for the i-th tool call threw
Threw(i) == \E k \in RunsOf(i) : executed[k].outcome.kind # "return"

\* C17: every ToolExecutionResult has an error exactly when the capability
\* was missing, the arguments did not decode or the run threw, and then its
\* result is null; without an error its result is what the capability returned.
C17_ResultXorError ==
    \A i \in 1..Len(toolResults) :
        /\ toolResults[i].error.has <=>
              \/ CapabilityName(calls[i]) \notin capabilities
              \/ ~Decodable(i)
              \/ Threw(i)
        /\ toolResults[i].error.has => toolResults[i].result = Null
        /\ ~toolResults[i].error.has =>
              \E k \in RunsOf(i) :
                  /\ executed[k].outcome.kind = "return"
                  /\ toolResults[i].result = executed[k].outcome.value

C17_Witness ==
    /\ Len(toolResults) = 2
    /\ calls[1].arguments.kind = "string"
    /\ toolResults[1].error = Some(SyntaxErrorMessage)
    /\ toolResults[1].result = Null
    /\ toolResults[2].error = None
    /\ toolResults[2].result = Scalar("num", "8")

\* ---------------------------------------------------------------------------
\* Conversation state
\* ---------------------------------------------------------------------------
\* the conversation turns a request puts before the provider: the messages of
\* provider.chat, the single prompt of provider.ask / provider.tools
TurnsSent(req) ==
    IF req.op = "chat" THEN req.messages ELSE << Turn("user", req.prompt) >>

IsPrefix(a, b) == Len(a) <= Len(b) /\ SubSeq(b, 1, Len(a)) = a

\* C18 as claimed: conversation state is per invocation and append-only: the
\* turns sent to the provider in the follow-up round have the invocation's
\* original turns as an unchanged prefix, the caller's messages stay as they
\* were handed in, and an operator between invocations holds no turns or
\* requests of an earlier one.
C18_ConversationAppendOnly ==
    /\ FollowUpSent => IsPrefix(OriginalTurns, TurnsSent(requests[2]))
    /\ method = "chatWithTools" => messages \in MessageChoices
    /\ pc = "idle" => (conversation = <<>> /\ requests = <<>> /\ messages = <<>>)

\* ---------------------------------------------------------------------------
\* chatWithTools() against chat()
\* ---------------------------------------------------------------------------
IsConversationTurn(turn) == turn.role # "system"

\* the turns of a conversation without its system turns, which a request may
\* carry as its system prompt instead
ConversationTurns(turns) == SelectSeq(turns, IsConversationTurn)

\* C19 as claimed: in its first round-trip chatWithTools(messages) puts before
\* the provider the conversation turns chat(messages) would send, all of
\* messages in order, together with the learned tools; when the provider
\* requests no tool call, its response is the result.
C19_ChatWithToolsSendsWhatChatSends ==
    (method = "chatWithTools" /\ Len(requests) > 0) =>
        /\ ConversationTurns(TurnsSent(requests[1])) =
              ConversationTurns(TurnsSent(chat(messages, [options EXCEPT !.tools = <<>>])))
        /\ requests[1].tools = options.tools \o LearnedDescriptors
        /\ (pc = "returned" /\ outcome.kind = "resolved"
              /\ ~CarriesToolCalls(initialResponse)) => outcome.response = initialResponse

\* ---------------------------------------------------------------------------
\* Learning: contracts whose descriptors do and do not agree with their
\* capabilities
\* ---------------------------------------------------------------------------
\* a contract whose second descriptor declares another name than its capability
MismatchedContract ==
    [unitId |-> <<"t">>,
     caps |-> << [name |-> <<"a">>, tool |-> <<"a">>, description |-> "adds", parameters |-> AddParameters],
                 [name |-> <<"b">>, tool |-> <<"w">>, description |-> "halves",
                    parameters |-> HalveParameters] >>]

LearnContracts == Contracts \cup NameContracts \cup {MismatchedContract}

LearnNext ==
    \/ \E c \in LearnContracts : Learn(c)
    \/ \E p \in Prompts : StartCall(p, ArgOptions)
    \/ \E r \in ToolSetResponses : Respond1(r)
    \/ ProviderFails
    \/ \E o \in Outcomes : ExecuteToolCall(o)
    \/ Continue
    \/ \E r \in Responses2 : Respond2(r)
    \/ Return

LearnSpec == Init /\ [][LearnNext]_vars

SchemaNames == {schemas[k].name : k \in 1..Len(schemas)}

ProbeNext ==
    \/ \E net \in NetOutcomes : ValidateConnection(net)
    \/ \E type \in AdapterClasses, net \in NetOutcomes : ProbeAdapter(type, net)
    \/ \E type \in AdapterClasses, op \in AdapterOps, f \in Failures :
           AdapterFails(type, op, f)
    \/ \E p \in Prompts : StartCall(p, NoOptions)
    \/ \E r \in {r \in Responses1 : ~r.hasToolCalls} : Respond1(r)
    \/ ProviderFails
    \/ Return

ProbeSpec == AdapterInit /\ [][ProbeNext]_vars

\* the endpoint failed: a non-2xx reply or no reply at all
ProbeFailed == connection.net \in {"status", "network"}

\* an exception is thrown inside the probe although the reply was 2xx: Mistral
\* finds no choice in the body
ProbeThrew == connection.type = "mistral" /\ connection.net = "nochoice"

\* C21: validateConnection() of every adapter, and of the operator delegating
\* to its backend, always resolves to a boolean and never rejects; a network
\* error, a non-2xx reply or an exception thrown inside yields false.
C21_ValidateConnectionNeverRejects ==
    connection.via # "none" =>
        /\ connection.answer.kind = "resolved"
        /\ connection.answer.value \in BOOLEAN
        /\ (ProbeFailed \/ ProbeThrew) => connection.answer.value = FALSE

\* the operator's probe of a backend whose fetch rejected
C21_Witness ==
    /\ connection.via = "operator"
    /\ connection.net = "network"
    /\ connection.answer = [kind |-> "resolved", value |-> FALSE]

\* C22: every failure of an adapter's ask/chat/tools (a non-2xx reply or a
\* network failure) reaches the caller as an AIError tagged with the vendor's
\* name, for every adapter; no other error shape is thrown to the caller.
C22_FailuresAreTaggedAIErrors ==
    thrown.raised =>
        /\ thrown.name = "AIError"
        /\ thrown.provider.has
        /\ thrown.provider.text \in {"openai", "openrouter", "claude", "deepseek",
                                     "grok", "gemini", "mistral", "bedrock"}

\* ---------------------------------------------------------------------------
\* The wire: what each backend sends for the requests of an invocation, with
\* caller-supplied tool definitions of every form and with system prompts
\* ---------------------------------------------------------------------------
\* tool definitions a caller supplies: with and without properties, with the
\* required names given, empty and left out, with and without a description
ToolDefinitionChoices ==
    { CustomTool,
      [name |-> <<"y">>, description |-> "", parameters |-> ObjectSchema({}, None)],
      [name |-> <<"z">>, description |-> "zeta",
       parameters |-> ObjectSchema({<<"a", "number">>, <<"b", "boolean">>}, Some(<<>>))] }

WireToolLists ==
    { <<>> } \cup { <<t>> : t \in ToolDefinitionChoices }
    \cup { <<t, CustomTool>> : t \in ToolDefinitionChoices \ {CustomTool} }

WireOptionChoices ==
    [ useTools : BOOLEAN,
      schemas : { [has |-> FALSE, list |-> <<>>] },
      tools : WireToolLists,
      systemPrompt : { None, Some(<<>>), Some(<<"sys">>) } ]

WireResponses ==
    { Response(<<"hi">>, FALSE, <<>>),
      Response(<<"hi">>, TRUE,
               << ToolCall(1, [name |-> <<"c", "_", "a">>,
                               arguments |-> ObjectArgs(FiveArgs)]) >>) }

WireNext ==
    \/ \E c \in Contracts : Learn(c)
    \/ \E p \in Prompts, opts \in WireOptionChoices : StartCall(p, opts)
    \/ \E msgs \in MessageChoices, opts \in {o \in WireOptionChoices : ~o.useTools} :
           StartChatWithTools(msgs, opts)
    \/ \E r \in WireResponses : Respond1(r)
    \/ \E f \in Failures : VendorFails(f)
    \/ \E o \in Outcomes : ExecuteToolCall(o)
    \/ Continue
    \/ \E r \in Responses2 : Respond2(r)
    \/ Return

WireSpec == AdapterInit /\ [][WireNext]_vars

\* the four fields of a tool definition
FourFields(name, description, properties, required) ==
    [name |-> name, description |-> description, properties |-> properties,
     required |-> required]

\* the tool definitions the operator handed to tools() for its i-th request
DefinitionsSent(i) ==
    [k \in 1..Len(requests[i].tools) |->
        FourFields(requests[i].tools[k].name, requests[i].tools[k].description,
                   requests[i].tools[k].parameters.properties,
                   requests[i].tools[k].parameters.required)]

\* the four fields read back from the declarations of the i-th body, each
\* vendor shape read where that vendor keeps them
DeclarationsRead(i) ==
    IF providerType \in {"claude", "anthropic"}
    THEN [k \in 1..Len(wire[i].tools) |->
             FourFields(wire[i].tools[k].name, wire[i].tools[k].description,
                        wire[i].tools[k].input_schema.properties,
                        wire[i].tools[k].input_schema.required)]
    ELSE IF providerType = "gemini"
    THEN LET decl == wire[i].tools[1].functionDeclarations
         IN [k \in 1..Len(decl) |->
                FourFields(decl[k].name, decl[k].description,
                           decl[k].parameters.properties, decl[k].parameters.required)]
    ELSE [k \in 1..Len(wire[i].tools) |->
             FourFields(wire[i].tools[k].function.name,
                        wire[i].tools[k].function.description,
                        wire[i].tools[k].function.parameters.properties,
                        wire[i].tools[k].function.parameters.required)]

\* C23: the tool declarations a backend sends, in each of the three vendor
\* shapes (nested under function, flat with input_schema, functionDeclarations),
\* give back exactly the name, description, properties and required of the
\* tool definitions the adapter was handed, for every definition.
C23_VendorShapesPreserveFourFields ==
    \A i \in 1..Len(wire) :
        requests[i].op = "tools" => DeclarationsRead(i) = DefinitionsSent(i)

\* a Claude backend has sent two declarations, one of a definition that
\* names required properties and one of a definition without any
C23_Witness ==
    /\ providerType = "claude"
    /\ Len(wire) > 0
    /\ requests[1].op = "tools"
    /\ Len(wire[1].tools) = 2
    /\ wire[1].tools[1].input_schema.required = Some(<<"a", "b">>)
    /\ wire[1].tools[2].input_schema.required = None
    /\ DeclarationsRead(1) = DefinitionsSent(1)

\* ---------------------------------------------------------------------------
\* Evolution: deriving a unit before and after learning, with and without
\* added capabilities
\* ---------------------------------------------------------------------------
EvolvedIds == {"advanced-ai"}

\* the capabilities handed to evolve(): none, or one of its own
AddedChoices == { {}, {<<"customCapability">>} }

EvolveNext ==
    \/ \E c \in LearnContracts : Learn(c)
    \/ \E id \in EvolvedIds, added \in AddedChoices : Evolve(id, added)
    \/ \E p \in Prompts : StartCall(p, ArgOptions)
    \/ \E r \in {r \in ToolSetResponses : ~r.hasToolCalls} : Respond1(r)
    \/ ProviderFails
    \/ Return

EvolveSpec == Init /\ [][EvolveNext]_vars

RequestedTypes == AdapterClasses \cup {"local", "invalid-provider"}

KeyChoices == { None, Some(<<>>), Some(<<"sk-test">>) }

FactoryNext ==
    \/ \E type \in RequestedTypes, apiKey \in KeyChoices : Create(type, apiKey)
    \/ \E c \in Contracts : Learn(c)
    \/ \E p \in Prompts : StartCall(p, NoOptions)
    \/ \E r \in {r \in ToolSetResponses : ~r.hasToolCalls} : Respond1(r)
    \/ Return

FactorySpec == AdapterInit /\ [][FactoryNext]_vars

\* the provider types an adapter class exists for
KnownProviders == AdapterClasses

KeyGiven == creation.apiKey.has /\ creation.apiKey.text # <<>>

\* the provider's name in the messages of the factory
ProviderName(type) ==
    CASE type \in {"claude", "anthropic"} -> "Claude"
      [] type = "openai" -> "OpenAI"
      [] type = "openrouter" -> "OpenRouter"
      [] type = "deepseek" -> "DeepSeek"
      [] type = "grok" -> "Grok"
      [] type = "gemini" -> "Gemini"
      [] type = "mistral" -> "Mistral"
      [] type = "bedrock" -> "Bedrock"
      [] OTHER -> "none"

\* C25: create() returns an operator only for a supported provider type with
\* a non-empty apiKey, and getProvider() of it is the requested type; an
\* unknown type fails with 'Unsupported AI provider', a missing apiKey of a
\* provider fails with '<Provider> provider requires apiKey'; no operator is
\* created in either case.
C25_CreateSucceedsOrNamesTheFault ==
    /\ creation.created =>
          /\ creation.type \in KnownProviders
          /\ KeyGiven
          /\ creation.provider = creation.type
    /\ creation.type \notin KnownProviders =>
          /\ ~creation.created
          /\ creation.error = <<"Unsupported AI provider: ", creation.type>>
    /\ (creation.type \in KnownProviders /\ ~KeyGiven) =>
          /\ ~creation.created
          /\ creation.error = <<ProviderName(creation.type), " provider requires apiKey">>

\* ---------------------------------------------------------------------------
\* The follow-up request of call()
\* ---------------------------------------------------------------------------
\* the turns call() means the follow-up round to carry: the prompt, the
\* assistant's text when there is any, the tool results
PromptTextResults ==
    << Turn("user", prompt) >>
    \o (IF Blank(initialResponse.content) THEN <<>>
        ELSE << Turn("assistant", initialResponse.content) >>)
    \o << Turn("user", ToolResultsContent(toolResults)) >>

\* C26 as claimed: in call(), when round 1 returned tool calls, the request of
\* the second round-trip conveys the original user prompt, then the assistant
\* text if there is any, then the tool-results turn, in that order, for every
\* combination of useTools, schemas and caller-supplied tools.
C26_FollowUpConveysPromptTextResults ==
    (FollowUpSent /\ method = "call") => TurnsSent(requests[2]) = PromptTextResults

\* ---------------------------------------------------------------------------
\* Sequencing: the loop of executeToolCalls at the grain of its await
\* ---------------------------------------------------------------------------
SeqNext ==
    \/ \E c \in Contracts : Learn(c)
    \/ \E p \in Prompts, opts \in OptionChoices : StartCall(p, opts)
    \/ \E msgs \in MessageChoices : StartChatWithTools(msgs, NoOptions)
    \/ \E r \in Responses1 : Respond1(r)
    \/ ProviderFails
    \/ BeginToolCall
    \/ \E o \in Outcomes : EndToolCall(o)
    \/ Continue
    \/ \E r \in Responses2 : Respond2(r)
    \/ Return

SeqSpec == Init /\ [][SeqNext]_vars

\* iterations begun and not yet ended
InFlight == started - Len(toolResults)

\* C27: rounds are strictly sequential: the follow-up request is issued only
\* after the response of round 1 was received and every tool execution of the
\* round has completed or failed; tool executions do not overlap, execution
\* i+1 begins only after execution i has ended.
C27_RoundsAndExecutionsSequential ==
    /\ InFlight \in {0, 1}
    /\ started > 0 => (Len(requests) >= 1 /\ CarriesToolCalls(initialResponse))
    /\ Len(requests) = 2 =>
          /\ CarriesToolCalls(initialResponse)
          /\ InFlight = 0
          /\ started = Len(initialResponse.toolCalls)
          /\ Len(toolResults) = Len(initialResponse.toolCalls)
    /\ pc \in {"round1", "round2"} => InFlight = 0

\* the second of two tool calls is in flight: the first has ended, with an
\* error, and the follow-up request has not been issued
C27_Witness ==
    /\ Len(initialResponse.toolCalls) = 2
    /\ started = 2
    /\ Len(toolResults) = 1
    /\ toolResults[1].error.has
    /\ Len(requests) = 1

\* ---------------------------------------------------------------------------
\* Names with more than one dot: unit ids with a dot, with and without an
\* underscore before it
\* ---------------------------------------------------------------------------
DotContracts ==
    { [unitId |-> u,
       caps |-> << [name |-> <<"a">>, tool |-> <<"a">>, description |-> "adds",
                    parameters |-> AddParameters],
                   [name |-> <<"a", "_", "b">>, tool |-> <<"a", "_", "b">>,
                    description |-> "halves", parameters |-> HalveParameters] >>] :
        u \in { <<"c">>, <<"c", ".", "d">>, <<"m", "_", "c", ".", "d">> } }

DotNext ==
    \/ \E c \in DotContracts : Learn(c)
    \/ \E p \in Prompts : StartCall(p, ArgOptions)
    \/ \E r \in NameResponses : Respond1(r)
    \/ ProviderFails
    \/ \E o \in Outcomes : ExecuteToolCall(o)
    \/ Continue
    \/ \E r \in Responses2 : Respond2(r)
    \/ Return

DotSpec == Init /\ [][DotNext]_vars

\* the number of dots in a name
RECURSIVE DotCount(_)
DotCount(name) ==
    IF Len(name) = 0 THEN 0
    ELSE (IF name[1] = "." THEN 1 ELSE 0) + DotCount(Tail(name))

\* an underscore stands before the first dot of the name
UnderscoreBeforeDot(name) ==
    \E u \in 1..Len(name) :
        /\ name[u] = "_"
        /\ \A d \in 1..u : name[d] # "."

\* the capability name the i-th tool call was resolved to: the name that was
\* run, or the name the not-found error quotes
ResolvedName(i) ==
    IF \E e \in 1..Len(executed) : executed[e].toolCallId = calls[i].id
    THEN executed[CHOOSE e \in 1..Len(executed) :
                      executed[e].toolCallId = calls[i].id].name
    ELSE SubSeq(toolResults[i].error.text, 2, Len(toolResults[i].error.text) - 1)

\* every learned descriptor was offered in round 1, in registration order
AllOffered ==
    method = "call" /\ Len(requests) > 0 /\ Len(requests[1].tools) = Len(schemas)

C29_InvocationLeavesRegistryAlone ==
    [][ (pc # "idle" \/ pc' # "idle") =>
            (capabilities' = capabilities /\ schemas' = schemas) ]_vars

\* an invocation that used the learned tools and ran a capability has
\* returned, and both learned capabilities and their descriptors are there
C29_Witness ==
    /\ pc = "returned"
    /\ options.useTools
    /\ Len(executed) > 0
    /\ capabilities = {<<"c", ".", "a">>, <<"c", ".", "b">>}
    /\ {schemas[k].name : k \in 1..Len(schemas)} = capabilities

\* ---------------------------------------------------------------------------
\* The system prompt on the wire
\* ---------------------------------------------------------------------------
\* the system prompt of the invocation in flight: options.systemPrompt for
\* call(), the leading system turn for chatWithTools()
InvocationSystemPrompt ==
    IF method = "call" THEN options.systemPrompt
    ELSE IF method = "chatWithTools" /\ messages[1].role = "system"
    THEN Some(messages[1].content)
    ELSE None

\* the body carries the text as its system field or as a system turn
CarriesSystemPrompt(body, text) ==
    \/ body.system.has /\ body.system.text = text
    \/ \E k \in 1..Len(body.messages) : body.messages[k] = Turn("system", text)

\* C30: the system prompt of an invocation is part of every provider request
\* the invocation makes, in round 1 and in the follow-up round, for every
\* provider adapter.
C30_SystemPromptInEveryRequest ==
    (InvocationSystemPrompt.has /\ Truthy(InvocationSystemPrompt.text)) =>
        \A i \in 1..Len(wire) : CarriesSystemPrompt(wire[i], InvocationSystemPrompt.text)
====
